---- MODULE Spec2Model ----
(***************************************************************************)
(* Archive download orchestration of TikTok_Archive.                       *)
(*                                                                         *)
(* The model follows src/src/core/downloader.py (TikTokDownloader: the     *)
(* Ledger _downloaded_videos, the InFlight set _active_downloads, the      *)
(* success and error logs, download_video) and the run loop of             *)
(* src/src/gui/main_window.py (start_download, process_download,           *)
(* stop_download).  A log line is a sequence of tokens, so that writing a  *)
(* record and reading it back are two different computations.              *)
(***************************************************************************)
EXTENDS Integers, Sequences, FiniteSets, TLC

\* ------------------------------------------------------------------ bounds
MaxItems == 3        \* longest work list of a single run
MaxConc == 2         \* largest concurrent_downloads setting explored
MaxEntries == 1      \* longest profile listing
MaxRuns == 2         \* presses of Start explored when runs are repeated
MaxRerunItems == 2   \* longest work list when runs are repeated
MaxSettingsItems == 2 \* longest work list when the settings change during the run
MaxFields == 2       \* most URL fields of one entry of a category list
MaxConfigItems == 1  \* longest work list of a run with configuration loads
MaxPauseItems == 2   \* longest work list of a run with the Pause button
MaxStepsItems == 2   \* longest work list of a run seen lock by lock
MaxWriteItems == 2   \* longest work list of a run with failing log writes
MaxRepairItems == 1  \* longest work list of a run over a success log on disk
MaxLogLines == 2     \* most lines of a success log on disk
MaxLiveItems == 2    \* longest work list of a run with fair workers
MaxKeys == 2         \* most entries of a configuration file
MaxListLen == 2      \* longest category list and longest message list

\* ------------------------------------------------------------------ inputs
VideoURLs == {"u1", "u2"}
ProfileURL == "p"
AllURLs == VideoURLs \cup {ProfileURL}

Items == [url : VideoURLs, cat : {"likes"}] \cup [url : {ProfileURL}, cat : {"profile"}]

SeqsUpTo(S, n) == UNION {[1..m -> S] : m \in 0..n}

WorkLists(n) == SeqsUpTo(Items, n) \ {<<>>}

EntryLists == SeqsUpTo(VideoURLs, MaxEntries)

\* ------------------------------------------------------------------ state
VARIABLES
    videos,        \* the work list handed to the run loop (main_window.py:431)
    batch_size,    \* config.concurrent_downloads, read at main_window.py:445
    successLog,    \* logs/success.log: a sequence of lines
    errorLog,      \* logs/error.log: a sequence of lines
    is_running,    \* TikTokArchiverGUI.is_running
    tpc,           \* position of the download thread in process_download
    runs,          \* download threads started so far
    presses,       \* presses of Start the behaviour contains at most
    i,             \* start index of the current batch (0-based, as in the code)
    sub,           \* futures submitted in the current batch
    col,           \* futures whose result the loop has collected
    exc,           \* an exception left future.result() (main_window.py:463)
    count,         \* the local counter `downloaded` of process_download
    downloaded,    \* TikTokDownloader._downloaded_videos: a set of keys
    active,        \* TikTokDownloader._active_downloads: a set of URLs
    worker,        \* the pool's threads, one per slot of the batch
    \* history, for stating the properties
    outcome,       \* per item of the run: its place in the item state machine
    dispatches,    \* per URL: dispatches of the run
    errs,          \* per item: error-log lines written for it
    notes,         \* per item: add_error calls made for it
    lastFailed,    \* URLs whose latest dispatched item ended Failed
    successUrls,   \* URLs of the success records appended so far
    loadedKeys,    \* what _load_downloaded_videos returned for this run
    verified,      \* URLs whose fetch of this run returned info and a file that exists
    prevOk,        \* the previous run ended with every item Succeeded
    \* the configuration object shared by the GUI and the downloader
    concurrent_downloads,  \* Config._concurrent_downloads, the stored value
    total_rate_limit,      \* Config._total_rate_limit, stored, in units of 512 KiB/s
    flags,                 \* Config.download_likes .. download_chat
    ratelimit,     \* per slot: the 'ratelimit' option of the fetch the worker started
    \* the export document and what the parser made of it
    data,          \* the decoded JSON document
    parsed,        \* what parse_data_file(data) did
    extracted,     \* what extract_videos(data) did
    setup,         \* what process_download did before its batch loop, in this run
    is_paused,     \* TikTokArchiverGUI.is_paused
    holds,         \* per slot: the lock or the log file the worker has in hand
    folders,       \* the metadata folders that exist on disk
    writable,      \* the log files can be opened for appending
    diagnostics    \* the log files for which a write error went to the logging module

vars == <<videos, batch_size, successLog, errorLog, is_running, tpc, runs, presses, i, sub,
          col, exc, count, downloaded, active, worker, outcome, dispatches, errs,
          notes, lastFailed, successUrls, loadedKeys, verified, prevOk,
          concurrent_downloads, total_rate_limit, flags, ratelimit, data, parsed, extracted,
          setup, is_paused, holds, folders, writable, diagnostics>>

\* ------------------------------------------------------------------ log lines
Whitespace == {" ", "\n"}

\* file_utils.log_message: "[timestamp] message\n"
LogLine(message) == <<"[ts]", " ">> \o message \o <<"\n">>

TitleOf(u) == <<"Title">>
IdOf(u) == "id"
FileOf(u) == "file"

\* downloader.py:256-257 (and 231-232 for a profile entry)
SuccessMessage(u, title, id, cat, file) ==
    <<"URL:", " ", u, " | ", "TITLE:", " ">> \o title \o
    <<" | ", "ID:", " ", id, " | ", "CATEGORY:", " ", cat, " | ", "FILE:", " ", file>>

\* downloader.py:273-274
ErrorMessage(u, id, cat) ==
    <<"ERROR:", " ", u, " | ", "TITLE:", " ", "Unknown Title", " | ", "ID:", " ", id,
      " | ", "CATEGORY:", " ", cat, " - ", "error_msg">>

Positions(s, tok) == {n \in 1..Len(s) : s[n] = tok}

MinOf(S) == CHOOSE x \in S : \A y \in S : x <= y

\* str.split(sep)[1]: what lies between the first and the second separator
SplitSecond(s, sep) ==
    LET P == Positions(s, sep)
        a == MinOf(P)
        Q == {n \in P : n > a}
        b == IF Q = {} THEN Len(s) + 1 ELSE MinOf(Q)
    IN  SubSeq(s, a + 1, b - 1)

\* str.strip()
Strip(s) ==
    LET K == {n \in 1..Len(s) : s[n] \notin Whitespace}
    IN  IF K = {} THEN <<>>
        ELSE SubSeq(s, MinOf(K), CHOOSE x \in K : \A y \in K : y <= x)

\* downloader.py:94-110, the path taken when the file decodes as UTF-8
LoadDownloadedVideos(log) ==
    {Strip(SplitSecond(log[n], "URL:")) : n \in {m \in 1..Len(log) : Positions(log[m], "URL:") # {}}}

\* A byte that is not valid UTF-8, and what errors='replace' decodes it to
BadByte == "\\xff"
Replacement == "\\ufffd"

\* downloader.py:98-99: every line of the file decodes as UTF-8
Decodes(log) == \A n \in 1..Len(log) : Positions(log[n], BadByte) = {}

\* downloader.py:103: a line read with errors='replace'
DecodeReplace(line) ==
    [n \in 1..Len(line) |-> IF line[n] = BadByte THEN Replacement ELSE line[n]]

\* downloader.py:98-101: the lines read before UnicodeDecodeError is raised
ReadBeforeError(log) ==
    SubSeq(log, 1, MinOf({n \in 1..Len(log) : Positions(log[n], BadByte) # {}}) - 1)

\* downloader.py:97-106: the keys collected by the two passes over the file
RepairedKeys(log) ==
    LoadDownloadedVideos(ReadBeforeError(log))
        \cup LoadDownloadedVideos([n \in 1..Len(log) |-> DecodeReplace(log[n])])

\* The orders in which `for url in downloaded` can go through the set
RECURSIVE Orders(_)
Orders(S) ==
    IF S = {} THEN {<<>>}
    ELSE UNION {{<<x>> \o rest : rest \in Orders(S \ {x})} : x \in S}

\* downloader.py:107-109: the file is truncated and gets one line per key
Rewritten(order) ==
    [n \in 1..Len(order) |-> LogLine(<<"URL:", " ">> \o order[n])]

NoRepair(log) == [st |-> "raised", keys |-> {}, logs |-> {log}]

\* downloader.py:102-109: the except clause of _load_downloaded_videos
Repair(log) ==
    [st |-> "returned", keys |-> RepairedKeys(log),
     logs |-> {Rewritten(order) : order \in Orders(RepairedKeys(log))}]

\* downloader.py:94-110: how the call ends, the set it returns and the contents
\* the file can have afterwards
load_downloaded_videos(log) ==
    IF Decodes(log)
    THEN [st |-> "returned", keys |-> LoadDownloadedVideos(log), logs |-> {log}]
    ELSE Repair(log)

\* The key download_video looks up: the WorkItem url itself
KeyOf(u) == <<u>>

\* ------------------------------------------------------------------ workers
IdleWorker == [pc |-> "idle", k |-> 0, res |-> "none", ents |-> <<>>, cur |-> "", succ |-> TRUE]

Slots == 1..MaxConc

\* Rates are counted in units of 512 KiB/s
\* config.py:40, 44: the floor of total_rate_limit, 1024 * 1024 bytes/s
RateFloor == 2

\* config.py:11: 10 * 1024 * 1024 bytes/s
DefaultRate == 20

\* The total rates the rate-limit field is set to: 1 MB/s and 2 MB/s
TotalRates == {RateFloor, 2 * RateFloor}

\* What stands for the ZeroDivisionError of downloader.py:118
ZeroDivision == -1

\* downloader.py:117-118: total_rate / concurrent_downloads
PerDownloadRate(total_rate, concurrent) ==
    IF concurrent = 0 THEN ZeroDivision ELSE total_rate \div concurrent

ItemOf(w) == worker[w].k
UrlOf(w) == videos[ItemOf(w)].url
CatOf(w) == videos[ItemOf(w)].cat

RestOfList == Len(videos) - i

\* main_window.py:450: videos[i:i + batch_size]
BatchLen == IF Len(videos) - i < batch_size THEN Len(videos) - i ELSE batch_size

\* ------------------------------------------------------------------ the export document
\* A decoded JSON value is a record whose field `kind` names its JSON type; the
\* other fields carry the members the parser looks at when the value is an
\* object or a list of the expected shape.  A value of another type stands for
\* one representative: null, the number 1, the string "x", the list ["x"].
\* A string is a sequence of atoms; the empty sequence is the empty string.

\* data_parser.py:94
Fields == <<"link", "Link", "shareURL", "ShareURL", "videoURL", "VideoURL">>

FieldSet == {Fields[n] : n \in 1..Len(Fields)}

\* data_parser.py:6-34
ListCategories == <<"likes", "favorites", "history", "shared">>

ListCategorySet == {ListCategories[n] : n \in 1..Len(ListCategories)}

\* data_parser.py:11, 18, 25, 32, 38: the "folder" of each category
FolderOf(c) ==
    CASE c = "likes" -> <<"Likes">>
      [] c = "favorites" -> <<"Favorites">>
      [] c = "history" -> <<"History">>
      [] c = "shared" -> <<"Shared">>
      [] c = "chat" -> <<"ChatHistory">>

\* data_parser.py:4: an atom "P1", "P2" stands for TIKTOK_URL_PATTERN followed by
\* the id 1 or 2; "x" is other text, " " is whitespace
PatternAtoms == {"P1", "P2"}

\* data_parser.py:114, 117: the literal "Chat History with "
ChatKeyPrefix == "Chat History with "

\* bool(value) of a string
Truthy(str) == str # <<>>

\* Entries of a category list: objects with up to MaxFields of the known URL
\* fields, and values that are not objects
DictEntries ==
    {[kind |-> "dict", f |-> g] :
        g \in UNION {[S -> {<<>>, <<"a">>, <<"b">>}] :
                        S \in {T \in SUBSET FieldSet : Cardinality(T) <= MaxFields}}}

OtherEntries == {[kind |-> k, f |-> <<>>] : k \in {"str", "null"}}

LinkEntry(field, v) == [kind |-> "dict", f |-> [x \in {field} |-> v]]

PlainEntries == {LinkEntry("link", <<"a">>), LinkEntry("VideoURL", <<"b">>),
                 [kind |-> "dict", f |-> <<>>]}

\* The value under a category's list key
ListValue(items) == [kind |-> "list", items |-> items]

OtherValue(k) == [kind |-> k, items |-> <<>>]

RichLists ==
    {ListValue(l) : l \in SeqsUpTo(DictEntries \cup OtherEntries, 1)
                          \cup [1..MaxListLen -> PlainEntries]}
    \cup {OtherValue(k) : k \in {"absent", "null", "num", "str", "dict"}}

\* The value under a category's name within its section
SubValue(lst) == [kind |-> "dict", lst |-> lst]

OtherSub(k) == [kind |-> k, lst |-> OtherValue("absent")]

RichSubs == {SubValue(l) : l \in RichLists} \cup {OtherSub(k) : k \in {"absent", "null", "str", "list"}}

PlainSubs == {OtherSub("absent"), SubValue(ListValue(<<LinkEntry("link", <<"a">>)>>))}

NoSubs == [c \in ListCategorySet |-> OtherSub("absent")]

\* The "Activity" section
Activities ==
    {[kind |-> "dict", sub |-> [c \in ListCategorySet |-> IF c = "likes" THEN l ELSE o[c]]] :
        l \in RichSubs \cup PlainSubs, o \in [ListCategorySet \ {"likes"} -> PlainSubs]}
    \cup {[kind |-> k, sub |-> NoSubs] : k \in {"absent", "null", "list", "str"}}

\* The "Profile" section: userName is the empty string when there is none
NoProfile == [kind |-> "absent", userName |-> <<>>]

ProfileOf(userName) == [kind |-> "dict", userName |-> userName]

Profiles == {NoProfile, [kind |-> "list", userName |-> <<>>], ProfileOf(<<>>), ProfileOf(<<"bob">>)}

\* Messages, correspondents and the "Direct Messages" section
TextContent(t) == [kind |-> "str", text |-> t]

Contents ==
    {TextContent(t) : t \in {<<>>, <<"x">>, <<"P1">>, <<"x", "P1">>, <<"P1", "x">>,
                             <<"x", " ", "P1">>, <<" ", "P1", " ", "P2">>,
                             <<"x", "P1", " ", "P2">>, <<"x", " ", "x">>}}
    \cup {[kind |-> k, text |-> <<>>] : k \in {"absent", "num"}}

Messages == {[kind |-> "dict", content |-> c] : c \in Contents}
            \cup {[kind |-> "str", content |-> TextContent(<<>>)]}

ChatKeys == {<<ChatKeyPrefix, "Alice", ":">>, <<ChatKeyPrefix, "Alice">>, <<"Alice">>}

Conversation(key, msgs) == [key |-> key, kind |-> "list", msgs |-> msgs]

Conversations ==
    {Conversation(k, m) : k \in ChatKeys, m \in SeqsUpTo(Messages, 1)}
    \cup {Conversation(<<ChatKeyPrefix, "Al">>, m) : m \in [1..MaxListLen -> {
              [kind |-> "dict", content |-> TextContent(<<"P1">>)],
              [kind |-> "dict", content |-> TextContent(<<"x">>)]}]}
    \cup {[key |-> <<ChatKeyPrefix, "Alice">>, kind |-> "str", msgs |-> <<>>]}

\* The value under "ChatHistory"
HistoryValue(convs) == [kind |-> "dict", convs |-> convs]

Histories ==
    {HistoryValue(c) : c \in SeqsUpTo(Conversations, 1)}
    \cup {[kind |-> k, convs |-> <<>>] : k \in {"absent", "null", "list"}}

\* The value under "Chat History"
ChatValue(hist) == [kind |-> "dict", hist |-> hist]

Chats == {ChatValue(h) : h \in Histories}
         \cup {[kind |-> k, hist |-> HistoryValue(<<>>)] : k \in {"absent", "null", "str"}}

DirectMessages ==
    {[kind |-> "dict", chat |-> c] : c \in Chats}
    \cup {[kind |-> k, chat |-> ChatValue(HistoryValue(<<>>))] : k \in {"absent", "null", "list", "str"}}

NoActivity == [kind |-> "absent", sub |-> NoSubs]

NoMessages == [kind |-> "absent", chat |-> ChatValue(HistoryValue(<<>>))]

OneLike == [kind |-> "dict",
            sub |-> [NoSubs EXCEPT !["likes"] = SubValue(ListValue(<<LinkEntry("link", <<"a">>)>>))]]

Document(root, profile, activity, dm) ==
    [root |-> root, Profile |-> profile, Activity |-> activity, DM |-> dm]

\* The document of a GUI in which no file has been chosen
EmptyDocument == Document("dict", NoProfile, NoActivity, NoMessages)

\* The documents explored: every list-category shape with a plain chat section,
\* every chat shape with a plain activity section, and roots that are not objects
Documents ==
    {Document("dict", p, a, NoMessages) : p \in {NoProfile, ProfileOf(<<"bob">>)},
                                          a \in Activities}
    \cup {Document("dict", p, a, NoMessages) : p \in Profiles, a \in {NoActivity, OneLike}}
    \cup {Document("dict", NoProfile, a, d) : a \in {NoActivity, OneLike}, d \in DirectMessages}
    \cup {Document(r, NoProfile, NoActivity, NoMessages) : r \in {"list", "null"}}

\* ------------------------------------------------------------------ the parser
\* What a Python operation does on a value of each JSON type
\* `key in value`: defined for objects, lists and strings
InRaises(kind) == kind \in {"null", "num"}

\* `value.get(key, default)`: defined for objects only
GetRaises(kind) == kind # "dict"

\* `for x in value`: defined for lists, strings and objects
IterRaises(kind) == kind \in {"null", "num"}

\* data_parser.py:43-61: every exception is caught and gives None, here <<>>
extract_username(d) ==
    IF d.root = "dict" /\ d.Profile.kind = "dict" THEN d.Profile.userName ELSE <<>>

WorkItem(url, folder, cat) == [url |-> url, folder |-> folder, cat |-> cat]

LastUrl(video) ==
    LET P == {m \in 1..Len(Fields) : Fields[m] \in DOMAIN video.f /\ Truthy(video.f[Fields[m]])}
    IN  IF P = {} THEN <<>> ELSE video.f[Fields[CHOOSE m \in P : \A q \in P : q <= m]]

\* data_parser.py:93-97: the loop over the field names from the n-th on, left at
\* the first field that is present with a truthy value; None is <<>>
RECURSIVE FirstUrl(_, _)
FirstUrl(video, n) ==
    IF n > Len(Fields) THEN <<>>
    ELSE IF Fields[n] \in DOMAIN video.f /\ Truthy(video.f[Fields[n]])
         THEN video.f[Fields[n]]
         ELSE FirstUrl(video, n + 1)

\* data_parser.py:93-97: the url of one entry
UrlOfEntry(video) == FirstUrl(video, 1)

\* data_parser.py:91-101: the loop over video_list, with the counter and the list
RECURSIVE ScanList(_, _, _)
ScanList(video_list, c, acc) ==
    IF video_list = <<>> THEN acc
    ELSE LET video == Head(video_list)
             url == IF video.kind = "dict" THEN UrlOfEntry(video) ELSE <<>>
         IN  ScanList(Tail(video_list), c,
                 IF video.kind = "dict" /\ Truthy(url)
                 THEN [count |-> acc.count + 1,
                       videos |-> Append(acc.videos, WorkItem(url, FolderOf(c), c))]
                 ELSE acc)

\* What `for video in video_list` yields: the elements of a list, the characters
\* of a string, the keys of an object
Elements(lst) == IF lst.kind = "list" THEN lst.items ELSE <<[kind |-> "str", f |-> <<>>]>>

RawLength(video_list, c) == Len(video_list)

\* data_parser.py:90-99: the value of `count` after the loop
CountOf(video_list, c) == ScanList(video_list, c, [count |-> 0, videos |-> <<>>]).count

KeepTotal(total, n) == total

\* data_parser.py:104, 137
AddToTotal(total, n) == total + n

Raised(acc) == [acc EXCEPT !.st = "raised"]

\* data_parser.py:85-104: one turn of the loop over the list categories
ParseCategory(d, c, acc) ==
    IF d.root # "dict" THEN (IF InRaises(d.root) THEN Raised(acc) ELSE acc)
    ELSE IF d.Activity.kind = "absent" THEN acc
    ELSE IF GetRaises(d.Activity.kind) THEN Raised(acc)
    ELSE LET category_data == d.Activity.sub[c]
             video_list == category_data.lst
         IN  IF category_data.kind \in {"absent", "null"} THEN acc
             ELSE IF GetRaises(category_data.kind) THEN Raised(acc)
             ELSE IF video_list.kind \in {"absent", "null"} THEN acc
             ELSE IF video_list.kind = "list" /\ video_list.items = <<>> THEN acc
             ELSE IF IterRaises(video_list.kind) THEN Raised(acc)
             ELSE LET n == CountOf(Elements(video_list), c)
                      r == ScanList(Elements(video_list), c, [count |-> 0, videos |-> <<>>])
                  IN  [acc EXCEPT !.counts[c] = n,
                                  !.counts["total_videos"] = AddToTotal(@, n),
                                  !.videos = @ \o r.videos]

\* str.split(): the maximal runs of atoms that are not whitespace
RECURSIVE Split(_)
Split(s) ==
    IF s = <<>> THEN <<>>
    ELSE IF Head(s) \in Whitespace THEN Split(Tail(s))
    ELSE LET Sp == {n \in 1..Len(s) : s[n] \in Whitespace}
             e == IF Sp = {} THEN Len(s) + 1 ELSE MinOf(Sp)
         IN  <<SubSeq(s, 1, e - 1)>> \o Split(SubSeq(s, e, Len(s)))

\* data_parser.py:126: `TIKTOK_URL_PATTERN in content`
ContainsPattern(text) == \E n \in 1..Len(text) : text[n] \in PatternAtoms

\* data_parser.py:130: `TIKTOK_URL_PATTERN in word`
WordMatches(word) == ContainsPattern(word)

\* data_parser.py:129-134: the first word that matches, or <<>>
RECURSIVE FirstMatch(_)
FirstMatch(words) ==
    IF words = <<>> THEN <<>>
    ELSE IF WordMatches(Head(words)) THEN Strip(Head(words))
    ELSE FirstMatch(Tail(words))

\* str.rstrip(":")
RECURSIVE RStripColon(_)
RStripColon(s) ==
    IF s # <<>> /\ s[Len(s)] = ":" THEN RStripColon(SubSeq(s, 1, Len(s) - 1)) ELSE s

\* data_parser.py:117
ChatUsername(username_key) ==
    RStripColon(SelectSeq(username_key, LAMBDA t : t # ChatKeyPrefix))

\* data_parser.py:133: f"{chat['folder']}/{chat_username}"
ChatFolder(chat_username) == FolderOf("chat") \o <<"/">> \o chat_username

\* data_parser.py:122-127: the message is looked at
HasPatternText(message) ==
    /\ message.kind = "dict"
    /\ message.content.kind = "str"
    /\ ContainsPattern(message.content.text)

\* data_parser.py:121-134: the loop over the messages of one correspondent
RECURSIVE ScanMessages(_, _, _)
ScanMessages(messages, chat_username, acc) ==
    IF messages = <<>> THEN acc
    ELSE LET message == Head(messages)
             word == IF HasPatternText(message)
                     THEN FirstMatch(Split(message.content.text)) ELSE <<>>
         IN  ScanMessages(Tail(messages), chat_username,
                 IF word # <<>>
                 THEN [count |-> acc.count + 1,
                       videos |-> Append(acc.videos,
                                         WorkItem(word, ChatFolder(chat_username), "chat"))]
                 ELSE acc)

\* data_parser.py:113-134: the loop over the correspondents
RECURSIVE ScanChats(_, _)
ScanChats(convs, acc) ==
    IF convs = <<>> THEN acc
    ELSE LET conv == Head(convs)
         IN  ScanChats(Tail(convs),
                 IF conv.key # <<>> /\ conv.key[1] = ChatKeyPrefix /\ conv.kind = "list"
                 THEN ScanMessages(conv.msgs, ChatUsername(conv.key), acc)
                 ELSE acc)

\* data_parser.py:107-137
ParseChat(d, acc) ==
    IF d.root # "dict" THEN (IF InRaises(d.root) THEN Raised(acc) ELSE acc)
    ELSE IF d.DM.kind = "absent" THEN acc
    ELSE IF InRaises(d.DM.kind) THEN Raised(acc)
    ELSE IF d.DM.kind # "dict" \/ d.DM.chat.kind = "absent" THEN acc
    ELSE IF GetRaises(d.DM.chat.kind) THEN Raised(acc)
    ELSE LET chat_history == d.DM.chat.hist
         IN  IF chat_history.kind \in {"absent", "null"} THEN acc
             ELSE IF chat_history.kind # "dict" THEN Raised(acc)
             ELSE IF chat_history.convs = <<>> THEN acc
             ELSE LET r == ScanChats(chat_history.convs, [count |-> 0, videos |-> <<>>])
                  IN  [acc EXCEPT !.counts["chat"] = r.count,
                                  !.counts["total_videos"] = AddToTotal(@, r.count),
                                  !.videos = @ \o r.videos]

CountKeys == {"total_videos", "likes", "favorites", "history", "shared", "chat"}

\* parse_data_file has not been called
NotParsed == [st |-> "none", counts |-> [k \in CountKeys |-> 0], videos |-> <<>>,
              username |-> <<>>]

\* data_parser.py:81-104: the loop over the list categories from the n-th on; an
\* exception ends the function
RECURSIVE ParseCategories(_, _, _)
ParseCategories(d, n, acc) ==
    IF n > Len(ListCategories) \/ acc.st = "raised" THEN acc
    ELSE ParseCategories(d, n + 1, ParseCategory(d, ListCategories[n], acc))

\* data_parser.py:64-141
parse_data_file(d) ==
    LET start == [NotParsed EXCEPT !.st = "returned", !.username = extract_username(d)]
        lists == ParseCategories(d, 1, start)
    IN  IF lists.st = "raised" THEN Raised(NotParsed) ELSE
        LET all == ParseChat(d, lists)
        IN  IF all.st = "raised" THEN Raised(NotParsed) ELSE all

\* ------------------------------------------------------------------ extract_videos
CategorySet == ListCategorySet \cup {"chat"}

\* config.py:6-28: the download_<category> attributes a Config object has
FlagSets == {[c \in CategorySet |-> TRUE], [c \in CategorySet |-> FALSE],
             [c \in CategorySet |-> c # "likes"], [c \in CategorySet |-> c = "chat"]}

\* getattr(config, "download_" + name) raises AttributeError
AttributeMissing(cfg, name) == name \notin DOMAIN cfg

\* config.py:8 and os.path.join(output_folder, folder)
OutputPath(folder) == <<"out", "/">> \o folder

\* downloader.py:159-161
ProfileItem(username) ==
    WorkItem(<<"https://www.tiktok.com/@">> \o username,
             OutputPath(<<"Profile_">> \o username), "profile")

SelectsAll(cfg, items) == items

\* downloader.py:165-173
Selected(cfg, items) == SelectSeq(items, LAMBDA it : cfg[it.cat])

RECURSIVE Rebased(_)
Rebased(items) ==
    IF items = <<>> THEN <<>>
    ELSE <<WorkItem(Head(items).url, OutputPath(Head(items).folder), Head(items).cat)>>
         \o Rebased(Tail(items))

NotExtracted == [st |-> "none", videos |-> <<>>]

\* downloader.py:152-195
extract_videos(d, cfg) ==
    LET p == parse_data_file(d)
    IN  IF p.st = "raised" THEN [st |-> "raised", videos |-> <<>>]
        ELSE IF Truthy(p.username) /\ AttributeMissing(cfg, "profile")
        THEN [st |-> "raised", videos |-> <<>>]
        ELSE [st |-> "returned",
              videos |-> (IF Truthy(p.username) /\ cfg["profile"]
                          THEN <<ProfileItem(p.username)>> ELSE <<>>)
                         \o Rebased(Selected(cfg, p.videos))]

\* ------------------------------------------------------------------ initial state
\* main_window.py:38-39: no downloader has been made; `calls` lists what the setup
\* of a run called, in order, and `result` tells how far it got
NoSetup == [result |-> "none", calls |-> <<>>, reported |-> FALSE]

\* TikTokArchiverGUI.__init__: no thread, no downloader; the logs of a fresh
\* output folder are empty.
InitRest(lists, n) ==
    /\ videos \in lists
    /\ presses = n
    /\ batch_size \in 1..MaxConc
    /\ concurrent_downloads = batch_size
    /\ ratelimit = [w \in Slots |-> 0]
    /\ setup = NoSetup
    /\ is_paused = FALSE
    /\ holds = [w \in Slots |-> "none"]
    /\ folders = {}
    /\ writable = TRUE
    /\ diagnostics = {}
    /\ errorLog = <<>>
    /\ is_running = FALSE
    /\ tpc = "none"
    /\ runs = 0
    /\ i = 0
    /\ sub = 0
    /\ col = 0
    /\ exc = FALSE
    /\ count = 0
    /\ downloaded = {}
    /\ active = {}
    /\ worker = [w \in Slots |-> IdleWorker]
    /\ outcome = [k \in 1..Len(videos) |-> "Pending"]
    /\ dispatches = [u \in AllURLs |-> 0]
    /\ errs = [k \in 1..Len(videos) |-> 0]
    /\ notes = [k \in 1..Len(videos) |-> 0]
    /\ lastFailed = {}
    /\ successUrls = {}
    /\ loadedKeys = {}
    /\ verified = {}
    /\ prevOk = FALSE

\* No success log exists yet
InitWith(lists, n) ==
    /\ successLog = <<>>
    /\ InitRest(lists, n)

\* config.py:11, 18-22: the settings of a fresh Config
DefaultSettings ==
    /\ total_rate_limit = DefaultRate
    /\ flags = [c \in CategorySet |-> TRUE]

\* No file has been chosen
NoDocument ==
    /\ data = EmptyDocument
    /\ parsed = NotParsed
    /\ extracted = NotExtracted

\* One run over a work list of up to MaxItems items
Init == InitWith(WorkLists(MaxItems), 1) /\ DefaultSettings /\ NoDocument

\* Up to MaxRuns runs over the same work list of up to MaxRerunItems items
InitRerun == InitWith(WorkLists(MaxRerunItems), MaxRuns) /\ DefaultSettings /\ NoDocument

\* One run over a work list of up to MaxConfigItems items, from a fresh Config
InitConfig == InitWith(WorkLists(MaxConfigItems), 1) /\ DefaultSettings /\ NoDocument

\* One run over a work list of up to MaxStepsItems items
\* The lines a success log of earlier versions and runs can hold
HistoricLines ==
    {LogLine(SuccessMessage("u1", TitleOf("u1"), IdOf("u1"), "likes", FileOf("u1"))),
     LogLine(SuccessMessage("u1", <<BadByte>>, IdOf("u1"), "likes", FileOf("u1"))),
     LogLine(<<"URL:", " ", "u2", BadByte>>),
     LogLine(<<"URL:", " ", "u2">>),
     LogLine(<<"Downloaded", " ", BadByte>>),
     <<"URL:", "u1", " ", "URL:", "u2", "\n">>}

HistoricLogs == SeqsUpTo(HistoricLines, MaxLogLines)

\* Two runs over a list of one item, started with a success log on disk
InitRepair ==
    /\ successLog \in HistoricLogs
    /\ InitRest(WorkLists(MaxRepairItems), MaxRuns)
    /\ DefaultSettings
    /\ NoDocument

InitWrite == InitWith(WorkLists(MaxWriteItems), 1) /\ DefaultSettings /\ NoDocument

InitSteps == InitWith(WorkLists(MaxStepsItems), 1) /\ DefaultSettings /\ NoDocument

\* One run over a work list of up to MaxLiveItems items
InitLive == InitWith(WorkLists(MaxLiveItems), 1) /\ DefaultSettings /\ NoDocument

\* One run over a work list of up to MaxPauseItems items
InitPause == InitWith(WorkLists(MaxPauseItems), 1) /\ DefaultSettings /\ NoDocument

\* One run over a work list of up to MaxSettingsItems items, from any settings
InitSettings ==
    /\ InitWith(WorkLists(MaxSettingsItems), 1)
    /\ total_rate_limit \in TotalRates
    /\ flags = [c \in CategorySet |-> TRUE]
    /\ NoDocument

\* A chosen document and category flags; no run
InitParse ==
    /\ InitWith({<<>>}, 0)
    /\ batch_size = 1
    /\ total_rate_limit = DefaultRate
    /\ flags \in FlagSets
    /\ data \in Documents
    /\ parsed = NotParsed
    /\ extracted = NotExtracted

settings == <<concurrent_downloads, total_rate_limit, flags>>

RawConcurrent(stored) == stored

\* config.py:30-32: the getter of concurrent_downloads
GetConcurrent(stored) == IF stored < 1 THEN 1 ELSE stored

RawRate(stored) == stored

\* config.py:38-40: the getter of total_rate_limit
GetRate(stored) == IF stored < RateFloor THEN RateFloor ELSE stored

\* config.concurrent_downloads, as any reader sees it
ConcurrentDownloads == GetConcurrent(concurrent_downloads)

\* config.total_rate_limit, as any reader sees it
TotalRateLimit == GetRate(total_rate_limit)
parser == <<data, parsed, extracted>>
history == <<outcome, dispatches, errs, notes, lastFailed, successUrls, loadedKeys, verified, prevOk>>
config == <<videos, batch_size, presses>>
logs == <<successLog, errorLog>>
loop == <<i, sub, col, exc, count>>
disk == <<folders, writable, diagnostics>>

\* ------------------------------------------------------------------ the GUI
NeverAlive == FALSE

\* main_window.py:488: self.download_thread and self.download_thread.is_alive()
ThreadAlive == tpc # "none"

\* main_window.py:486-505
start_download ==
    /\ ~ThreadAlive
    /\ runs < presses
    /\ is_running' = TRUE
    /\ tpc' = "begin"
    /\ runs' = runs + 1
    /\ is_paused' = FALSE
    /\ UNCHANGED <<config, settings, ratelimit, parser, setup, disk, holds, logs, loop, downloaded, active, worker, history>>

\* main_window.py:655-661 (the Stop button is enabled while a run is shown as running)
stop_download ==
    /\ tpc # "none"
    /\ is_running' = FALSE
    /\ UNCHANGED <<config, settings, ratelimit, parser, setup, disk, is_paused, holds, logs, tpc, runs, loop, downloaded, active, worker, history>>

\* main_window.py:333-344
toggle_pause ==
    /\ is_running
    /\ is_paused' = ~is_paused
    /\ UNCHANGED <<config, settings, ratelimit, parser, setup, disk, holds, logs, is_running, tpc,
                   runs, loop, downloaded, active, worker, history>>

\* What the user can type into the two numeric fields
ConcurrentInputs == 0..MaxConc
RateInputs == {RateFloor \div 2} \cup TotalRates

\* main_window.py:599-603 and config.py:34-36
ClampConcurrent(v) == IF v < 1 THEN 1 ELSE v

\* main_window.py:609-614 and config.py:42-44
ClampRate(v) == IF v < RateFloor THEN RateFloor ELSE v

\* main_window.py:589-637: the fields are traced, so the handler runs at any time,
\* also while a run is in progress; the category check boxes are written back as
\* they are
on_setting_change ==
    /\ \E c \in ConcurrentInputs, r \in RateInputs :
        /\ concurrent_downloads' = ClampConcurrent(c)
        /\ total_rate_limit' = ClampRate(r)
    /\ flags' = flags
    /\ UNCHANGED <<config, ratelimit, parser, setup, disk, is_paused, holds, logs, is_running, tpc, runs, loop, downloaded,
                   active, worker, history>>

\* The values an assignment or a configuration file can carry for the two numbers,
\* zero and negative ones included
StoredConcurrents == (0 - 1)..MaxConc
StoredRates == {0 - RateFloor, 0, RateFloor \div 2} \cup TotalRates

\* config.py:34-36: the setter of concurrent_downloads, given any value
set_concurrent_downloads ==
    /\ \E v \in StoredConcurrents : concurrent_downloads' = ClampConcurrent(v)
    /\ UNCHANGED <<config, total_rate_limit, flags, ratelimit, parser, setup, disk, is_paused, holds, logs, is_running, tpc,
                   runs, loop, downloaded, active, worker, history>>

\* config.py:42-44: the setter of total_rate_limit, given any value
set_total_rate_limit ==
    /\ \E v \in StoredRates : total_rate_limit' = ClampRate(v)
    /\ UNCHANGED <<config, concurrent_downloads, flags, ratelimit, parser, setup, disk, is_paused, holds, logs, is_running,
                   tpc, runs, loop, downloaded, active, worker, history>>

\* The keys of config.json that name one of the two numbers: the property and the
\* attribute behind it; "download_batch_size" is a key of older files that names no
\* attribute of Config
ConcurrentKeys == {"concurrent_downloads", "_concurrent_downloads"}
RateKeys == {"total_rate_limit", "_total_rate_limit"}
ConfigEntries ==
    {[key |-> k, value |-> v] : k \in ConcurrentKeys, v \in StoredConcurrents}
    \cup {[key |-> k, value |-> v] : k \in RateKeys, v \in StoredRates}
    \cup {[key |-> "download_batch_size", value |-> 0]}

\* The decoded content of a configuration file: up to MaxKeys entries, in file order
ConfigFiles == SeqsUpTo(ConfigEntries, MaxKeys)

\* config.py:60-61: hasattr(self, key) holds for a property and for the attribute
\* behind it; setattr on the property runs its setter, setattr on the attribute
\* stores the value as it is
SetAttr(cfg, e) ==
    CASE e.key = "concurrent_downloads" -> [cfg EXCEPT !.c = ClampConcurrent(e.value)]
      [] e.key = "_concurrent_downloads" -> [cfg EXCEPT !.c = e.value]
      [] e.key = "total_rate_limit" -> [cfg EXCEPT !.r = ClampRate(e.value)]
      [] e.key = "_total_rate_limit" -> [cfg EXCEPT !.r = e.value]
      [] OTHER -> cfg

\* config.py:59-61: the loop over the items of the file
RECURSIVE LoadEntries(_, _)
LoadEntries(cfg, entries) ==
    IF entries = <<>> THEN cfg
    ELSE LoadEntries(SetAttr(cfg, Head(entries)), Tail(entries))

\* config.py:54-61, called from Config.__init__ (config.py:25-26) when the file
\* exists: a Config is made when the window is, never while a run is in progress
load_config ==
    /\ tpc = "none"
    /\ \E file \in ConfigFiles :
        LET cfg == LoadEntries([c |-> concurrent_downloads, r |-> total_rate_limit], file)
        IN  /\ concurrent_downloads' = cfg.c
            /\ total_rate_limit' = cfg.r
    /\ UNCHANGED <<config, flags, ratelimit, parser, setup, disk, is_paused, holds, logs, is_running, tpc, runs, loop,
                   downloaded, active, worker, history>>

\* main_window.py:520-556: a file is chosen and parse_data_file is applied to it
ParseDataFile ==
    /\ parsed.st = "none"
    /\ parsed' = parse_data_file(data)
    /\ UNCHANGED <<config, settings, ratelimit, setup, disk, is_paused, holds, data, extracted, logs, is_running, tpc, runs,
                   loop, downloaded, active, worker, history>>

\* main_window.py:431 and downloader.py:152-195
ExtractVideos ==
    /\ extracted.st = "none"
    /\ extracted' = extract_videos(data, flags)
    /\ UNCHANGED <<config, settings, ratelimit, setup, disk, is_paused, holds, data, parsed, logs, is_running, tpc, runs,
                   loop, downloaded, active, worker, history>>

\* ------------------------------------------------------------------ process_download
\* How the setup of a run can go: through; no working ffmpeg is found
\* (downloader.py:39-40); the file cannot be read or decoded (main_window.py:423-424)
SetupResults == {"ok", "noffmpeg", "baddoc"}

ChecksLast(found) == <<"create_folder", "_load_downloaded_videos", "_find_ffmpeg">>

\* downloader.py:38-53: what TikTokDownloader.__init__ calls, in order, up to the
\* RuntimeError when no ffmpeg was found
ConstructorCalls(found) ==
    IF found THEN <<"_find_ffmpeg", "create_folder", "_load_downloaded_videos">>
    ELSE <<"_find_ffmpeg">>

\* main_window.py:419-431: the constructor, then the document, then the work list
SetupCalls(r) ==
    ConstructorCalls(r # "noffmpeg")
        \o (IF r = "noffmpeg" THEN <<>> ELSE <<"json.loads">>)
        \o (IF r = "ok" THEN <<"extract_videos">> ELSE <<>>)

EntersLoop(r) == "batch"

\* main_window.py:417-445, 477-484: an exception of the setup leaves the try block
AfterSetup(r) == IF r = "ok" THEN "batch" ELSE "fin"

\* main_window.py:413-442.  The downloader is constructed afresh (downloader.py:32-53):
\* an empty InFlight set and the Ledger replayed from the success log.
ProcessBegin ==
    /\ tpc = "begin"
    /\ is_running' = TRUE
    /\ \E r \in SetupResults :
        /\ tpc' = AfterSetup(r)
        /\ setup' = [result |-> r, calls |-> SetupCalls(r), reported |-> r # "ok"]
        /\ IF \E n \in 1..Len(SetupCalls(r)) : SetupCalls(r)[n] = "_load_downloaded_videos"
           THEN /\ downloaded' = load_downloaded_videos(successLog).keys
                /\ loadedKeys' = load_downloaded_videos(successLog).keys
                /\ successLog' \in load_downloaded_videos(successLog).logs
                /\ active' = {}
                /\ verified' = {}
           ELSE UNCHANGED <<downloaded, active, loadedKeys, verified, successLog>>
    /\ i' = 0
    /\ sub' = 0
    /\ col' = 0
    /\ exc' = FALSE
    /\ count' = 0
    /\ worker' = [w \in Slots |-> IdleWorker]
    /\ outcome' = [k \in 1..Len(videos) |-> "Pending"]
    /\ dispatches' = [u \in AllURLs |-> 0]
    /\ errs' = [k \in 1..Len(videos) |-> 0]
    /\ notes' = [k \in 1..Len(videos) |-> 0]
    /\ batch_size' = ConcurrentDownloads
    /\ ratelimit' = [w \in Slots |-> 0]
    /\ UNCHANGED <<videos, presses, settings, parser, is_paused, holds, disk, errorLog, runs, lastFailed,
                   successUrls, prevOk>>

\* main_window.py:446-451: the head of the batch loop
BatchHead ==
    /\ tpc = "batch"
    /\ IF i >= Len(videos) \/ ~is_running
       THEN tpc' = "fin" /\ UNCHANGED <<worker, ratelimit>>
       ELSE /\ tpc' = "submit"
            /\ worker' = [w \in Slots |-> IdleWorker]
            /\ ratelimit' = [w \in Slots |-> 0]
    /\ sub' = 0
    /\ col' = 0
    /\ UNCHANGED <<config, settings, parser, setup, disk, is_paused, holds, logs, is_running, runs, i, exc, count, downloaded, active, history>>

StopIgnored == FALSE

\* main_window.py:455: `if not self.is_running` before a dispatch
StopSeen == ~is_running

\* main_window.py:454-457: one turn of the submit loop
Submit ==
    /\ tpc = "submit"
    /\ sub < BatchLen
    /\ IF StopSeen
       THEN /\ tpc' = IF sub = 0 THEN "exit" ELSE "collect"
            /\ UNCHANGED <<sub, worker>>
       ELSE /\ sub' = sub + 1
            /\ worker' = [worker EXCEPT ![sub + 1].pc = "start", ![sub + 1].k = i + sub + 1]
            /\ tpc' = IF sub + 1 = BatchLen THEN "collect" ELSE "submit"
    /\ UNCHANGED <<config, settings, ratelimit, parser, setup, disk, is_paused, holds, logs, is_running, runs, i, col, exc, count, downloaded, active, history>>

\* main_window.py:459-461: the running flag is read before the result is awaited
CollectCheck ==
    /\ tpc = "collect"
    /\ tpc' = IF is_running THEN "wait" ELSE "exit"
    /\ UNCHANGED <<config, settings, ratelimit, parser, setup, disk, is_paused, holds, logs, is_running, runs, loop, downloaded, active, worker, history>>

CountsNothing(res) == FALSE

\* main_window.py:463-464: `if future.result(): downloaded += 1`
CountsAsSuccess(res) == res = "true"

\* main_window.py:463-468: future.result() returns or re-raises what the worker raised
CollectResult ==
    /\ tpc = "wait"
    /\ worker[col + 1].pc = "returned"
    /\ IF worker[col + 1].res = "raised"
       THEN /\ exc' = TRUE
            /\ tpc' = "exit"
            /\ UNCHANGED <<col, count>>
       ELSE /\ col' = col + 1
            /\ count' = IF CountsAsSuccess(worker[col + 1].res) THEN count + 1 ELSE count
            /\ tpc' = IF col + 1 = sub THEN "exit" ELSE "collect"
            /\ UNCHANGED exc
    /\ UNCHANGED <<config, settings, ratelimit, parser, setup, disk, is_paused, holds, logs, is_running, runs, i, sub, downloaded, active, worker, history>>

NoShutdownWait == TRUE

\* ThreadPoolExecutor.__exit__ (main_window.py:453): shutdown(wait=True)
ShutdownDone == \A w \in 1..sub : worker[w].pc = "returned"

\* main_window.py:453, 470-472, 477: leaving the with block, then break, raise or loop
ExecutorExit ==
    /\ tpc = "exit"
    /\ ShutdownDone
    /\ IF exc \/ ~is_running
       THEN tpc' = "fin" /\ UNCHANGED i
       ELSE tpc' = "batch" /\ i' = i + batch_size
    /\ UNCHANGED <<config, settings, ratelimit, parser, setup, disk, is_paused, holds, logs, is_running, runs, sub, col, exc, count, downloaded, active, worker, history>>

AllSucceeded == \A k \in 1..Len(videos) : outcome[k] = "Succeeded"

\* main_window.py:474-484: the finally clause; the thread ends
Finish ==
    /\ tpc = "fin"
    /\ is_running' = FALSE
    /\ tpc' = "none"
    /\ prevOk' = AllSucceeded
    /\ UNCHANGED <<config, settings, ratelimit, parser, setup, disk, is_paused, holds, logs, runs, loop, downloaded, active, worker, outcome, dispatches,
                   errs, notes, lastFailed, successUrls, loadedKeys, verified>>

\* ------------------------------------------------------------------ download_video
orch == <<is_running, tpc, runs, i, sub, col, exc, count>>

NeverDownloaded(u) == FALSE

\* downloader.py:199
AlreadyDownloaded(u) == KeyOf(u) \in downloaded

NeverActive(u) == FALSE

\* downloader.py:202
AlreadyActive(u) == u \in active

\* downloader.py:51: _downloads_lock is free
LockFree == \A x \in Slots : holds[x] # "lock"

\* downloader.py:198, 262, 283: `with self._downloads_lock` is entered: worker w
\* either took the lock in a step of its own or takes it now
HasLock(w) == holds[w] = "lock" \/ (holds[w] = "none" /\ LockFree)

KeepsLock(w) == "lock"

\* downloader.py:205-206, 263-264, 284: the end of a `with self._downloads_lock`
\* block, and file_utils.py:28-29: the end of a `with open(...)` block
AfterWith(w) == "none"

\* downloader.py:198, 262, 283: the lock is taken, the block not yet run
\* downloader.py:113: os.path.join(folder, "metadata")
MetadataFolder(cat) == <<cat, "/", "metadata">>

\* file_utils.py:11: os.path.exists(path)
Exists(path) == path \in folders

RaisesOnError(ok, next) == IF ok THEN next ELSE "except"

\* file_utils.py:30-31: log_message catches what open or write raises
AfterWrite(ok, next) == next

\* file_utils.py:27-31: the files whose failed write was passed to logging.error
Diagnosed(ok, file) == IF ok THEN diagnostics ELSE diagnostics \cup {file}

\* The log files become unwritable, or writable again, while a run goes on
disk_change ==
    /\ tpc # "none"
    /\ writable' = ~writable
    /\ UNCHANGED <<config, settings, ratelimit, parser, setup, folders, diagnostics, is_paused, holds,
                   logs, orch, downloaded, active, worker, history>>

\* file_utils.py:11 as a step of its own: create_folder found the metadata
\* folder of the item missing and is about to make it
FolderCheck(w) ==
    /\ worker[w].pc \in {"fetch", "listing"}
    /\ holds[w] = "none"
    /\ ~Exists(MetadataFolder(CatOf(w)))
    /\ holds' = [holds EXCEPT ![w] = "makedirs"]
    /\ UNCHANGED <<config, settings, ratelimit, parser, setup, disk, is_paused, logs, orch,
                   downloaded, active, worker, history>>

\* file_utils.py:12 as a step of its own: os.makedirs(path) raises FileExistsError
\* when the folder has appeared since the check; downloader.py:268 catches it
MakeDirs(w) ==
    /\ holds[w] = "makedirs"
    /\ holds' = [holds EXCEPT ![w] = "none"]
    /\ IF Exists(MetadataFolder(CatOf(w)))
       THEN /\ worker' = [worker EXCEPT ![w].pc = "except"]
            /\ UNCHANGED folders
       ELSE /\ folders' = folders \cup {MetadataFolder(CatOf(w))}
            /\ UNCHANGED worker
    /\ UNCHANGED <<config, settings, ratelimit, parser, setup, writable, diagnostics, is_paused, logs, orch,
                   downloaded, active, history>>

Acquire(w) ==
    /\ worker[w].pc \in {"start", "notified", "finally"}
    /\ holds[w] = "none"
    /\ LockFree
    /\ holds' = [holds EXCEPT ![w] = "lock"]
    /\ UNCHANGED <<config, settings, ratelimit, parser, setup, disk, is_paused, logs, orch,
                   downloaded, active, worker, history>>

\* file_utils.py:28: the log file of the record is opened for appending, the line
\* not yet written; nothing keeps a second worker from opening the same file
OpenLog(w) ==
    /\ worker[w].pc \in {"verified", "except"}
    /\ holds[w] = "none"
    /\ holds' = [holds EXCEPT ![w] =
                    IF worker[w].pc = "verified" THEN "success.log" ELSE "error.log"]
    /\ UNCHANGED <<config, settings, ratelimit, parser, setup, disk, is_paused, logs, orch,
                   downloaded, active, worker, history>>

\* downloader.py:198-206: the membership checks and the insertion into InFlight,
\* one critical section of _downloads_lock; then the fetch call is outstanding
\* (get_ydl_opts, then extract_info: downloader.py:208-214, 244-245).
Consider(w) ==
    /\ worker[w].pc = "start"
    /\ HasLock(w)
    /\ holds' = [holds EXCEPT ![w] = AfterWith(w)]
    /\ LET u == UrlOf(w)
           k == ItemOf(w)
       IN  IF AlreadyDownloaded(u)
           THEN /\ worker' = [worker EXCEPT ![w].pc = "returned", ![w].res = "true"]
                /\ outcome' = [outcome EXCEPT ![k] = "SkippedDup"]
                /\ UNCHANGED <<active, dispatches, lastFailed, ratelimit>>
           ELSE IF AlreadyActive(u)
           THEN /\ worker' = [worker EXCEPT ![w].pc = "returned", ![w].res = "true"]
                /\ outcome' = [outcome EXCEPT ![k] = "SkippedInFlight"]
                /\ UNCHANGED <<active, dispatches, lastFailed, ratelimit>>
           ELSE /\ active' = active \cup {u}
                /\ worker' = [worker EXCEPT ![w].pc =
                                 IF CatOf(w) = "profile" THEN "listing" ELSE "fetch"]
                /\ outcome' = [outcome EXCEPT ![k] = "Dispatched"]
                /\ dispatches' = [dispatches EXCEPT ![u] = @ + 1]
                /\ lastFailed' = lastFailed \ {u}
                /\ ratelimit' = [ratelimit EXCEPT ![w] =
                                    PerDownloadRate(TotalRateLimit, ConcurrentDownloads)]
    /\ UNCHANGED <<config, settings, parser, setup, disk, is_paused, logs, orch, downloaded, errs, notes, successUrls, loadedKeys,
                   verified, prevOk>>

\* What the external fetch of a regular item can do: return info with the file in
\* place, raise, return no info, return info without the file, or leave sidecar
\* files whose move raises.
FetchOutcomes == {"ok", "raise", "noinfo", "nofile", "moveerr"}

TrustsFetcher(out) == out \in {"ok", "nofile"}

\* downloader.py:245-252, 266: info returned, os.path.exists(final_filename), and
\* _move_metadata_files did not raise
FileVerified(out) == out = "ok"

\* downloader.py:244-252, 265-268: the fetch call of a regular item returns
FetchReturn(w) ==
    /\ worker[w].pc = "fetch"
    /\ holds[w] = "none"
    /\ folders' = folders \cup {MetadataFolder(CatOf(w))}
    /\ \E out \in FetchOutcomes :
        /\ IF FileVerified(out)
           THEN worker' = [worker EXCEPT ![w].pc = "verified"]
           ELSE worker' = [worker EXCEPT ![w].pc = "except"]
        /\ verified' = IF out = "ok" THEN verified \cup {UrlOf(w)} ELSE verified
    /\ UNCHANGED <<config, settings, ratelimit, parser, setup, writable, diagnostics, is_paused, holds, logs, orch, downloaded, active, outcome, dispatches, errs, notes,
                   lastFailed, successUrls, loadedKeys, prevOk>>

\* downloader.py:254-257: the success record
WriteSuccess(w) ==
    /\ worker[w].pc = "verified"
    /\ holds[w] \in {"none", "success.log"}
    /\ holds' = [holds EXCEPT ![w] = AfterWith(w)]
    /\ LET u == UrlOf(w)
       IN  IF writable
           THEN /\ successLog' = Append(successLog,
                       LogLine(SuccessMessage(u, TitleOf(u), IdOf(u), CatOf(w), FileOf(u))))
                /\ successUrls' = successUrls \cup {u}
           ELSE UNCHANGED <<successLog, successUrls>>
    /\ diagnostics' = Diagnosed(writable, "success.log")
    /\ worker' = [worker EXCEPT ![w].pc = AfterWrite(writable, "logged")]
    /\ UNCHANGED <<config, settings, ratelimit, parser, setup, folders, writable, is_paused, errorLog, orch, downloaded, active, outcome, dispatches, errs,
                   notes, lastFailed, loadedKeys, verified, prevOk>>

\* downloader.py:259-260: callback.add_success, which may raise
NotifySuccess(w) ==
    /\ worker[w].pc = "logged"
    /\ \/ worker' = [worker EXCEPT ![w].pc = "notified"]
       \/ worker' = [worker EXCEPT ![w].pc = "except"]
    /\ UNCHANGED <<config, settings, ratelimit, parser, setup, disk, is_paused, holds, logs, orch, downloaded, active, history>>

\* downloader.py:262-264: the Ledger insertion, under the lock; return True
LedgerAdd(w) ==
    /\ worker[w].pc = "notified"
    /\ HasLock(w)
    /\ holds' = [holds EXCEPT ![w] = AfterWith(w)]
    /\ downloaded' = downloaded \cup {KeyOf(UrlOf(w))}
    /\ worker' = [worker EXCEPT ![w].pc = "finally", ![w].res = "true"]
    /\ UNCHANGED <<config, settings, ratelimit, parser, setup, disk, is_paused, logs, orch, active, history>>

\* downloader.py:268-274: the error record
WriteError(w) ==
    /\ worker[w].pc = "except"
    /\ holds[w] \in {"none", "error.log"}
    /\ holds' = [holds EXCEPT ![w] = AfterWith(w)]
    /\ LET u == UrlOf(w)
       IN  IF writable
           THEN /\ errorLog' = Append(errorLog,
                       LogLine(ErrorMessage(u, IdOf(u), CatOf(w))))
                /\ errs' = [errs EXCEPT ![ItemOf(w)] = @ + 1]
           ELSE UNCHANGED <<errorLog, errs>>
    /\ diagnostics' = Diagnosed(writable, "error.log")
    /\ worker' = [worker EXCEPT ![w].pc = AfterWrite(writable, "errlogged")]
    /\ UNCHANGED <<config, settings, ratelimit, parser, setup, folders, writable, is_paused, successLog, orch, downloaded, active, outcome, dispatches, notes,
                   lastFailed, successUrls, loadedKeys, verified, prevOk>>

\* downloader.py:276-280: callback.add_error, which may raise out of the handler
NotifyFailure(w) ==
    /\ worker[w].pc = "errlogged"
    /\ notes' = [notes EXCEPT ![ItemOf(w)] = @ + 1]
    /\ \/ worker' = [worker EXCEPT ![w].pc = "finally", ![w].res = "false"]
       \/ worker' = [worker EXCEPT ![w].pc = "finally", ![w].res = "raised"]
    /\ UNCHANGED <<config, settings, ratelimit, parser, setup, disk, is_paused, holds, logs, orch, downloaded, active, outcome, dispatches, errs,
                   lastFailed, successUrls, loadedKeys, verified, prevOk>>

ReleasedOnSuccessOnly(w) == IF worker[w].res = "true" THEN active \ {UrlOf(w)} ELSE active

\* downloader.py:282-284
Released(w) == active \ {UrlOf(w)}

\* downloader.py:282-284: the finally clause; the worker then returns or re-raises
Release(w) ==
    /\ worker[w].pc = "finally"
    /\ HasLock(w)
    /\ holds' = [holds EXCEPT ![w] = AfterWith(w)]
    /\ active' = Released(w)
    /\ worker' = [worker EXCEPT ![w].pc = "returned"]
    /\ outcome' = [outcome EXCEPT ![ItemOf(w)] =
                      IF worker[w].res = "true" THEN "Succeeded" ELSE "Failed"]
    /\ lastFailed' = IF worker[w].res = "true" THEN lastFailed \ {UrlOf(w)}
                     ELSE lastFailed \cup {UrlOf(w)}
    /\ UNCHANGED <<config, settings, ratelimit, parser, setup, disk, is_paused, logs, orch, downloaded, dispatches, errs, notes, successUrls,
                   loadedKeys, verified, prevOk>>

\* downloader.py:213-216, 241, 268: extract_info(url, download=False) of a profile
\* returns a listing, returns nothing usable, or raises
ListingReturn(w) ==
    /\ worker[w].pc = "listing"
    /\ holds[w] = "none"
    /\ folders' = folders \cup {MetadataFolder(CatOf(w))}
    /\ \/ \E e \in EntryLists :
            worker' = [worker EXCEPT ![w].pc = "entries", ![w].ents = e, ![w].succ = TRUE]
       \/ worker' = [worker EXCEPT ![w].pc = "finally", ![w].res = "false"]
       \/ worker' = [worker EXCEPT ![w].pc = "except"]
    /\ UNCHANGED <<config, settings, ratelimit, parser, setup, writable, diagnostics, is_paused, holds, logs, orch, downloaded, active, history>>

\* downloader.py:217-224, 240: the next entry's fetch is started, or the loop ends
\* and success is returned
EntryStart(w) ==
    /\ worker[w].pc = "entries"
    /\ IF worker[w].ents = <<>>
       THEN worker' = [worker EXCEPT ![w].pc = "finally",
                          ![w].res = IF worker[w].succ THEN "true" ELSE "false"]
       ELSE worker' = [worker EXCEPT ![w].pc = "entryfetch",
                          ![w].cur = Head(worker[w].ents), ![w].ents = Tail(worker[w].ents)]
    /\ UNCHANGED <<config, settings, ratelimit, parser, setup, disk, is_paused, holds, logs, orch, downloaded, active, history>>

\* What the fetch of one profile entry can do: "ok" and "okcb" return info with the
\* file in place (in "okcb" add_success then raises), "noinfo" returns nothing,
\* "nofile" returns info without the file, "raise" raises.
EntryOutcomes == {"ok", "okcb", "noinfo", "nofile", "raise"}

\* downloader.py:224-239: the fetch call of a profile entry returns
EntryReturn(w) ==
    /\ worker[w].pc = "entryfetch"
    /\ \E out \in EntryOutcomes :
        LET v == worker[w].cur
            wrote == out \in {"ok", "okcb"}
        IN  /\ IF wrote /\ writable
               THEN /\ successLog' = Append(successLog,
                           LogLine(SuccessMessage(v, TitleOf(v), IdOf(v), CatOf(w), FileOf(v))))
                    /\ successUrls' = successUrls \cup {v}
               ELSE UNCHANGED <<successLog, successUrls>>
            /\ diagnostics' = Diagnosed(wrote => writable, "success.log")
            /\ worker' = [worker EXCEPT ![w].pc = AfterWrite(wrote => writable, "entries"), ![w].cur = "",
                             ![w].succ = IF out \in {"ok", "noinfo"} THEN @ ELSE FALSE]
    /\ UNCHANGED <<config, settings, ratelimit, parser, setup, folders, writable, is_paused, holds, errorLog, orch, downloaded, active, outcome, dispatches, errs,
                   notes, lastFailed, loadedKeys, verified, prevOk>>

WorkerStep(w) ==
    \/ Consider(w)
    \/ FetchReturn(w)
    \/ WriteSuccess(w)
    \/ NotifySuccess(w)
    \/ LedgerAdd(w)
    \/ WriteError(w)
    \/ NotifyFailure(w)
    \/ Release(w)
    \/ ListingReturn(w)
    \/ EntryStart(w)
    \/ EntryReturn(w)

\* ------------------------------------------------------------------ specification
Next ==
    \/ start_download
    \/ stop_download
    \/ ProcessBegin
    \/ BatchHead
    \/ Submit
    \/ CollectCheck
    \/ CollectResult
    \/ ExecutorExit
    \/ Finish
    \/ \E w \in Slots : WorkerStep(w)

Spec == Init /\ [][Next]_vars

SpecRerun == InitRerun /\ [][Next]_vars

\* A run during which the settings are edited
NextSettings == Next \/ on_setting_change

SpecSettings == InitSettings /\ [][NextSettings]_vars

\* The parser and extract_videos applied to a document
\* A run in which taking the lock and opening a log file are steps of their own
NextSteps ==
    \/ Next
    \/ \E w \in Slots : Acquire(w)
    \/ \E w \in Slots : OpenLog(w)
    \/ \E w \in Slots : FolderCheck(w)
    \/ \E w \in Slots : MakeDirs(w)

SpecSteps == InitSteps /\ [][NextSteps]_vars

SpecRepair == InitRepair /\ [][Next]_vars

NextWrite == Next \/ disk_change

SpecWrite == InitWrite /\ [][NextWrite]_vars

\* One run in which every worker thread that can take a step eventually takes
\* one: the pool's threads are scheduled by the operating system, and a fetch
\* call ends (the fetcher is given socket_timeout and retries, downloader.py:126-127)
SpecLive == InitLive /\ [][Next]_vars /\ \A w \in Slots : WF_vars(WorkerStep(w))

\* The steps of the download thread (main_window.py:403-484)
ThreadStep ==
    ProcessBegin \/ BatchHead \/ Submit \/ CollectCheck \/ CollectResult \/ ExecutorExit \/ Finish

\* The scheduler runs every worker that can take a step and the download thread
SpecTerm ==
    /\ InitLive
    /\ [][Next]_vars
    /\ \A w \in Slots : WF_vars(WorkerStep(w))
    /\ WF_vars(ThreadStep)

\* A run during which the Pause button is pressed
NextPause == Next \/ toggle_pause

SpecPause == InitPause /\ [][NextPause]_vars

\* A run during which the configuration is assigned to and loaded
NextConfig == Next \/ set_concurrent_downloads \/ set_total_rate_limit \/ load_config

SpecConfig == InitConfig /\ [][NextConfig]_vars

NextParse == ParseDataFile \/ ExtractVideos

SpecParse == InitParse /\ [][NextParse]_vars

\* ------------------------------------------------------------------ properties
ItemIds == 1..Len(videos)

InFlightPcs == {"fetch", "verified", "logged", "notified", "except", "errlogged",
                "listing", "entries", "entryfetch", "finally"}

\* Worker w has an external fetch call for URL u outstanding
Fetching(w, u) ==
    \/ worker[w].pc \in {"fetch", "listing"} /\ UrlOf(w) = u
    \/ worker[w].pc = "entryfetch" /\ worker[w].cur = u

\* This step invokes the external fetcher for URL u in worker w
FetchStarts(w, u) ==
    \/ /\ worker[w].pc = "start"
       /\ worker'[w].pc \in {"fetch", "listing"}
       /\ UrlOf(w) = u
    \/ /\ worker[w].pc = "entries"
       /\ worker'[w].pc = "entryfetch"
       /\ worker'[w].cur = u

\* An item of the run was found in the Ledger when it was considered
SkippedAsDuplicate(u) == \E k \in ItemIds : videos[k].url = u /\ outcome[k] = "SkippedDup"

\* C1 (as claimed): once an item with URL u has been considered with u in the
\* Ledger, no step invokes the external fetcher for u, whatever the category of
\* the item being worked on and whatever runs concurrently.
C1_NoFetchOfCompleted ==
    [][\A w \in Slots, u \in AllURLs :
          FetchStarts(w, u) => ~(KeyOf(u) \in downloaded /\ SkippedAsDuplicate(u))]_vars

OnlyVideos == \A k \in ItemIds : videos[k].cat # "profile"

\* C2 (as claimed): in a second run over the same list of two video items,
\* after a first run in which both items Succeeded, every item is
\* Skipped-Duplicate and no fetch is dispatched.
C2_RerunSkipsAll ==
    (runs = 2 /\ tpc \notin {"begin", "none"} /\ prevOk /\ Len(videos) = 2 /\ OnlyVideos)
        => /\ \A k \in ItemIds : outcome[k] \in {"Pending", "SkippedDup"}
           /\ \A u \in AllURLs : dispatches[u] = 0

\* C3 (as claimed): replaying the success log yields exactly the URLs of the
\* records appended to it, each key being the URL alone (the key of the
\* membership check).
C3_LedgerRoundTrip ==
    LoadDownloadedVideos(successLog) = {KeyOf(u) : u \in successUrls}

DispatchedItems(u) ==
    {k \in ItemIds : videos[k].url = u /\ outcome[k] \in {"Dispatched", "Succeeded", "Failed"}}

\* An item that finished without its URL entering the Ledger: it ended Failed, or
\* it is a profile item (download_video never enters a profile URL)
FinishedUnrecorded(k) ==
    \/ outcome[k] = "Failed"
    \/ outcome[k] = "Succeeded" /\ videos[k].cat = "profile"

C5_WriteAfterVerify == downloaded \subseteq (loadedKeys \cup {KeyOf(u) : u \in verified})

\* C5 witness: a Ledger holding keys of both origins
C5_Witness ==
    /\ loadedKeys # {}
    /\ \E u \in verified : KeyOf(u) \in downloaded /\ KeyOf(u) \notin loadedKeys

\* C6: InFlight holds exactly the URLs of the workers between their dispatch and
\* their finish, and is empty once the run has returned.
C6_InFlightRelease ==
    /\ active = {UrlOf(w) : w \in {x \in Slots : worker[x].pc \in InFlightPcs}}
    /\ tpc = "none" => active = {}

\* C6 witness: a run that returned through an error in the run loop after an
\* item had been dispatched
C6_Witness ==
    /\ tpc = "none"
    /\ runs = 1
    /\ exc
    /\ \E k \in ItemIds : outcome[k] = "Failed"
    /\ active = {}

\* C7 (as claimed): no two workers have a fetch for the same URL outstanding.
C7_NoConcurrentSameUrl ==
    \A w1, w2 \in Slots : \A u \in AllURLs :
        (w1 # w2) => ~(Fetching(w1, u) /\ Fetching(w2, u))

C9_FailureReportedOnce ==
    \A k \in ItemIds : outcome[k] = "Failed" => errs[k] = 1 /\ notes[k] = 1

\* C10 (as claimed): no worker ends by raising, and no exception of an item
\* reaches the run loop.
C10_FailureStaysInWorker ==
    /\ \A w \in Slots : worker[w].res # "raised"
    /\ ~exc

\* This step hands an item to a worker of the pool (executor.submit)
HandsOver == \E w \in Slots : worker[w].pc # "start" /\ worker'[w].pc = "start"

\* C11: from the moment the running flag is cleared inside the run loop, it stays
\* cleared until the run has ended and no step hands a further item to a worker;
\* so with batch 1 of 3 dispatched when the flag is cleared, no item of batch 2
\* or 3 is dispatched.
C11_NoDispatchAfterStop ==
    [][(tpc \notin {"none", "begin"} /\ ~is_running) => (~is_running' /\ ~HandsOver)]_vars

\* C11 witness: three batches of one item, a run that ended without an error
\* after batch 1 was dispatched, and the items of batches 2 and 3 never handed
\* to a worker
C11_Witness ==
    /\ Len(videos) = 3
    /\ batch_size = 1
    /\ runs = 1
    /\ tpc = "none"
    /\ ~exc
    /\ outcome[1] \in {"Succeeded", "Failed"}
    /\ outcome[2] = "Pending"
    /\ outcome[3] = "Pending"

\* C12: every worker that has been handed an item and has not returned belongs
\* to the batch the run loop is in, so no item of a later batch is dispatched
\* while a worker of an earlier batch is still running, also after the
\* collecting loop was left early.
C12_BatchesSequential ==
    \A w \in Slots :
        worker[w].pc \notin {"idle", "returned"}
            => /\ tpc \in {"submit", "collect", "wait", "exit"}
               /\ ItemOf(w) \in (i + 1)..(i + sub)

\* C12 witness: the collecting loop of the second batch was left because the
\* flag was cleared, with a worker of that batch still running
C12_Witness ==
    /\ i > 0
    /\ tpc = "exit"
    /\ ~is_running
    /\ col < sub
    /\ \E w \in 1..sub : worker[w].pc \in InFlightPcs

\* Workers with an external fetch call outstanding
FetchingWorkers == {w \in Slots : worker[w].pc \in {"fetch", "listing", "entryfetch"}}

\* C13 (as claimed): the number of fetches in progress is at most the
\* concurrency the configuration holds at that moment.
C13_AtMostConfigured == Cardinality(FetchingWorkers) <= ConcurrentDownloads

\* C13 (amended): the number of fetches in progress is at most the concurrency
\* the configuration held when the run entered its batch loop; a change of the
\* setting takes effect with the next run.
C13_AtMostBatchSize == Cardinality(FetchingWorkers) <= batch_size

\* C13 witness: as many fetches in progress as the run allows, after the
\* setting was lowered
C13_Witness ==
    /\ Cardinality(FetchingWorkers) = batch_size
    /\ ConcurrentDownloads < batch_size

RECURSIVE SumOfCaps(_)
SumOfCaps(W) ==
    IF W = {} THEN 0
    ELSE LET w == CHOOSE x \in W : TRUE IN ratelimit[w] + SumOfCaps(W \ {w})

\* C14 (as claimed): the rate caps given to the fetches in progress sum to at
\* most the total rate the configuration holds at that moment, also when the
\* settings are edited during the run.
C14_RateBudgetHonoured == SumOfCaps(FetchingWorkers) <= TotalRateLimit

\* ---- the parser
\* The returned WorkItems of category c, in order
ItemsOf(c) == SelectSeq(parsed.videos, LAMBDA it : it.cat = c)

\* C15: when parse_data_file returns, total_videos is the sum of the five
\* category counts and the length of the returned list, and each category
\* count is the number of returned WorkItems of that category.
C15_CountsConsistent ==
    parsed.st = "returned" =>
        /\ parsed.counts["total_videos"] =
               parsed.counts["likes"] + parsed.counts["favorites"] + parsed.counts["history"]
               + parsed.counts["shared"] + parsed.counts["chat"]
        /\ parsed.counts["total_videos"] = Len(parsed.videos)
        /\ \A c \in CategorySet : parsed.counts[c] = Len(ItemsOf(c))

\* C15 witness: a result with items of several categories
C15_Witness ==
    /\ parsed.st = "returned"
    /\ parsed.counts["likes"] = 2
    /\ parsed.counts["favorites"] = 1
    /\ parsed.counts["shared"] = 1
    /\ parsed.counts["total_videos"] = 4

\* C16 (as claimed): parse_data_file raises on no document.
C16_ParserNeverRaises == parsed.st # "raised"

\* The raw list of category c in the document, where the path to it has the
\* expected types
RawList(c) ==
    IF /\ data.root = "dict"
       /\ data.Activity.kind = "dict"
       /\ data.Activity.sub[c].kind = "dict"
       /\ data.Activity.sub[c].lst.kind = "list"
    THEN data.Activity.sub[c].lst.items
    ELSE <<>>

\* The positions, in priority order, of the known fields that entry e carries
\* with a non-empty value
FilledFields(e) ==
    IF e.kind # "dict" THEN {}
    ELSE {n \in 1..Len(Fields) : Fields[n] \in DOMAIN e.f /\ e.f[Fields[n]] # <<>>}

Usable(c) == SelectSeq(RawList(c), LAMBDA e : FilledFields(e) # {})

\* C17: the urls of the WorkItems of a list category are, entry by entry, the
\* value of the first field in priority order that the entry carries with a
\* non-empty value.
C17_FirstFieldWins ==
    parsed.st = "returned" =>
        \A c \in ListCategorySet :
            /\ Len(ItemsOf(c)) = Len(Usable(c))
            /\ \A n \in 1..Len(Usable(c)) :
                  ItemsOf(c)[n].url = Usable(c)[n].f[Fields[MinOf(FilledFields(Usable(c)[n]))]]

\* C17 witness: an entry with two filled fields of different values, whose
\* WorkItem carries the value of the earlier one
C17_Witness ==
    /\ parsed.st = "returned"
    /\ Len(RawList("likes")) = 1
    /\ LET e == RawList("likes")[1]
       IN  /\ Cardinality(FilledFields(e)) = 2
           /\ \E m, n \in FilledFields(e) :
                 /\ m < n
                 /\ e.f[Fields[m]] # e.f[Fields[n]]
                 /\ ItemsOf("likes") = <<WorkItem(e.f[Fields[m]], FolderOf("likes"), "likes")>>

\* C18: each list category count is the number of entries that carry a known
\* field with a non-empty value, which is the number of WorkItems of the
\* category; entries without one produce nothing and are not counted.
C18_UnusableEntriesDropped ==
    parsed.st = "returned" =>
        \A c \in ListCategorySet :
            /\ parsed.counts[c] = Len(Usable(c))
            /\ Cardinality({n \in 1..Len(parsed.videos) : parsed.videos[n].cat = c})
                  = Len(Usable(c))

\* C18 witness: a raw list of two entries of which one has no usable field
C18_Witness ==
    /\ parsed.st = "returned"
    /\ Len(RawList("likes")) = 2
    /\ Len(Usable("likes")) = 1
    /\ parsed.counts["likes"] = 1

\* The correspondents of the document, where the path to them has the expected
\* types
RawChats ==
    IF /\ data.root = "dict"
       /\ data.DM.kind = "dict"
       /\ data.DM.chat.kind = "dict"
       /\ data.DM.chat.hist.kind = "dict"
    THEN data.DM.chat.hist.convs
    ELSE <<>>

\* The word begins with the video-share prefix
StartsWithPattern(word) == word # <<>> /\ word[1] \in PatternAtoms

\* The whitespace-delimited tokens of the textual content of message m that
\* begin with the video-share prefix
PrefixedTokens(m) ==
    IF m.kind = "dict" /\ m.content.kind = "str"
    THEN SelectSeq(Split(m.content.text), StartsWithPattern)
    ELSE <<>>

RECURSIVE ExpectedOfMessages(_)
ExpectedOfMessages(msgs) ==
    IF msgs = <<>> THEN <<>>
    ELSE (IF PrefixedTokens(Head(msgs)) = <<>> THEN <<>>
          ELSE <<Head(PrefixedTokens(Head(msgs)))>>) \o ExpectedOfMessages(Tail(msgs))

RECURSIVE ExpectedOfChats(_)
ExpectedOfChats(convs) ==
    IF convs = <<>> THEN <<>>
    ELSE (IF Head(convs).key[1] = ChatKeyPrefix /\ Head(convs).kind = "list"
          THEN ExpectedOfMessages(Head(convs).msgs) ELSE <<>>)
         \o ExpectedOfChats(Tail(convs))

\* C19 (as claimed): the chat WorkItems are, message by message, the first token
\* of the content that begins with the video-share prefix, one per message that
\* has such a token and none for the others; their folder contains the name of
\* the correspondent.
C19_ChatFirstPrefixedToken ==
    parsed.st = "returned" =>
        /\ Len(ItemsOf("chat")) = Len(ExpectedOfChats(RawChats))
        /\ \A n \in 1..Len(ItemsOf("chat")) :
              /\ ItemsOf("chat")[n].url = ExpectedOfChats(RawChats)[n]
              /\ \E k \in 1..Len(ItemsOf("chat")[n].folder) :
                    ItemsOf("chat")[n].folder[k] = RawChats[1].key[2]

\* The configuration enables profile download
ProfileEnabled == ~AttributeMissing(flags, "profile") /\ flags["profile"]

\* C20 (as claimed): when the parser returns, extract_videos returns too, with a
\* profile item exactly when the document names an account and profile download
\* is enabled, and with the items of the selected categories.
C20_ProfileIffEnabled ==
    (extracted.st # "none" /\ parse_data_file(data).st = "returned") =>
        /\ extracted.st = "returned"
        /\ (\E n \in 1..Len(extracted.videos) : extracted.videos[n].cat = "profile")
              <=> (Truthy(extract_username(data)) /\ ProfileEnabled)
        /\ SelectSeq(extracted.videos, LAMBDA it : it.cat # "profile")
              = Rebased(Selected(flags, parse_data_file(data).videos))

\* ------------------------------------------------------------------ C21
MaxOf(a, b) == IF a >= b THEN a ELSE b

\* The step in which worker w starts its fetch
Dispatched(w) == worker[w].pc = "start" /\ worker'[w].pc \in {"fetch", "listing"}

\* C21 (as claimed): the per-worker rate every outstanding fetch was started with
\* is at least the rate floor of the configuration.
C21_PerWorkerAtLeastFloor == \A w \in FetchingWorkers : ratelimit[w] >= RateFloor

\* C21 (amended): the per-worker rate a fetch is started with is at least the
\* rate floor divided by the concurrency read back at that moment.
C21_PerWorkerAtLeastShare ==
    [][\A w \in Slots :
          Dispatched(w) => ratelimit'[w] >= RateFloor \div ConcurrentDownloads]_vars

\* A fetch is outstanding whose rate is below the floor
C21_Witness == \E w \in FetchingWorkers : ratelimit[w] > 0 /\ ratelimit[w] < RateFloor

\* ------------------------------------------------------------------ C22
\* C22: after every assignment and load the concurrency read back is at least 1
\* and the total rate read back is at least the floor; every fetch is started
\* with the rate total / max(1, stored concurrency), and the division never fails.
C22_ReadBackClamped ==
    [][/\ ConcurrentDownloads' >= 1
       /\ TotalRateLimit' >= RateFloor
       /\ \A w \in Slots :
            Dispatched(w) =>
                /\ ratelimit'[w] # ZeroDivision
                /\ ratelimit'[w] = TotalRateLimit \div MaxOf(1, concurrent_downloads)]_vars

\* A fetch is outstanding while both stored numbers are below their floors
C22_Witness ==
    /\ concurrent_downloads < 1
    /\ total_rate_limit < RateFloor
    /\ \E w \in FetchingWorkers : ratelimit[w] = RateFloor

\* ------------------------------------------------------------------ C23
TerminalOutcomes == {"Succeeded", "Failed", "SkippedDup", "SkippedInFlight"}

\* A line of the success log or of the error log was written for item k
Recorded(k) ==
    \/ errs[k] >= 1
    \/ outcome[k] = "Succeeded" /\ videos[k].url \in successUrls

\* add_error was called for item k, or add_success on its way to Succeeded
Notified(k) ==
    \/ notes[k] >= 1
    \/ outcome[k] = "Succeeded" /\ videos[k].cat # "profile"

\* C23: every item that has reached a terminal outcome (Succeeded, Failed,
\* SkippedDup, SkippedInFlight) has been notified to the reporter and has a
\* record in the success log or in the error log.
C23_EveryOutcomeObservable ==
    \A k \in 1..Len(videos) :
        outcome[k] \in TerminalOutcomes => Recorded(k) /\ Notified(k)

\* ------------------------------------------------------------------ C24
CallsOf(name) == {n \in 1..Len(setup.calls) : setup.calls[n] = name}

\* C24: the search for ffmpeg is the first call of every setup and is made once;
\* when it finds nothing the run ends with the error reported, no folder was
\* created, the Ledger was not loaded and no item was handed to the pool.
C24_FailsBeforeAnything ==
    /\ (tpc # "begin" /\ setup.result # "none") =>
            /\ setup.calls[1] = "_find_ffmpeg"
            /\ Cardinality(CallsOf("_find_ffmpeg")) = 1
    /\ (tpc # "begin" /\ setup.result = "noffmpeg") =>
            /\ setup.reported
            /\ CallsOf("create_folder") = {}
            /\ CallsOf("_load_downloaded_videos") = {}
            /\ tpc \in {"fin", "none"}
            /\ \A k \in 1..Len(videos) : outcome[k] = "Pending"
            /\ \A u \in AllURLs : dispatches[u] = 0
            /\ \A w \in Slots : worker[w].pc = "idle"

\* A run over a full work list has ended for want of ffmpeg
C24_Witness ==
    /\ tpc = "none"
    /\ runs = 1
    /\ setup.result = "noffmpeg"
    /\ Len(videos) = MaxItems

\* ------------------------------------------------------------------ C25
\* C25: in a run whose document cannot be read or decoded the error is reported,
\* no item is handed to the pool, the Ledger holds what the success log replays
\* to, and no step of the run changes the success log or the error log.
C25_BadDocumentRunsNothing ==
    [][(setup'.result = "baddoc" /\ tpc' # "begin") =>
            /\ setup'.reported
            /\ tpc' \in {"fin", "none"}
            /\ successLog' = successLog
            /\ errorLog' = errorLog
            /\ downloaded' = LoadDownloadedVideos(successLog)
            /\ active' = {}
            /\ \A k \in 1..Len(videos) : outcome'[k] = "Pending"
            /\ \A u \in AllURLs : dispatches'[u] = 0]_vars

\* The second run ended on its document after a first run that wrote records
C25_Witness ==
    /\ tpc = "none"
    /\ runs = 2
    /\ setup.result = "baddoc"
    /\ successLog # <<>>

\* ------------------------------------------------------------------ C26
\* C26: while the pause flag is set the run loop starts no batch and hands no
\* item to the pool.
C26_PausedLoopWaits ==
    [][(is_paused /\ is_paused') =>
            /\ ~HandsOver
            /\ ~(tpc = "batch" /\ tpc' = "submit")]_vars

\* ------------------------------------------------------------------ C27
LockedPcs == {"start", "notified", "finally"}

InFlightGoesOn ==
    /\ \A w \in Slots :
            (~is_running /\ worker[w].pc \in InFlightPcs) =>
                /\ worker'[w].k = worker[w].k
                /\ \/ worker'[w].pc \in InFlightPcs
                   \/ /\ worker'[w].pc = "returned"
                      /\ UrlOf(w) \notin active'
                      /\ \/ CatOf(w) = "profile"
                         \/ /\ worker'[w].res = "true"
                            /\ KeyOf(UrlOf(w)) \in downloaded'
                            /\ UrlOf(w) \in successUrls'
                         \/ /\ worker'[w].res # "true"
                            /\ errs'[ItemOf(w)] >= 1
    /\ tpc' = "none" => \A w \in Slots : worker'[w].pc \notin InFlightPcs

SuccessNotified(w) == worker[w].pc = "logged" /\ worker'[w].pc = "notified"

\* C29: when the reporter receives the success notification of a URL, the URL is
\* already in the Ledger.
C29_LedgerBeforeNotification ==
    [][\A w \in Slots : SuccessNotified(w) => KeyOf(UrlOf(w)) \in downloaded]_vars

\* ------------------------------------------------------------------ C30
LogFiles == {"success.log", "error.log"}

\* C30: no two workers have the same log file open for appending at once.
C30_LogWritesSerialized ==
    \A w1, w2 \in Slots :
        (w1 # w2 /\ holds[w1] \in LogFiles) => holds[w2] # holds[w1]

\* ------------------------------------------------------------------ C33
\* The items of the run that ended Succeeded or skipped
GoodItems == {k \in ItemIds : outcome[k] \in {"Succeeded", "SkippedDup", "SkippedInFlight"}}

\* The run loop went through the whole list and returned
RanThrough == tpc = "none" /\ runs >= 1 /\ setup.result = "ok" /\ i >= Len(videos)

DecidesOnKnown(w) ==
    /\ worker[w].pc = "start"
    /\ worker'[w].pc # "start"
    /\ AlreadyDownloaded(UrlOf(w))

C36_StopNeverLost ==
    [][(tpc # "none" /\ ~is_running) => ~is_running']_vars

\* ------------------------------------------------------------------ C37
\* C37: whenever no worker is active, the URLs of the success records appended
\* in the run are the keys added to the Ledger in the run.
C37_LogAgreesWithLedger ==
    (\A w \in Slots : worker[w].pc \notin InFlightPcs)
        => {KeyOf(u) : u \in successUrls} = downloaded \ loadedKeys

\* ------------------------------------------------------------------ C38
\* C38: a download thread is started only when none is alive: the previous
\* thread has ended and left no worker behind.
C38_OneRunAtATime ==
    [][runs' # runs =>
           /\ tpc = "none"
           /\ \A w \in Slots : worker[w].pc \in {"idle", "returned"}]_vars

\* The second thread is alive
C38_Witness == runs = 2 /\ tpc = "submit"

\* ------------------------------------------------------------------ C39
\* C39 (as claimed): no URL is in the Ledger and in InFlight at once.
C39_LedgerInFlightDisjoint ==
    \A u \in AllURLs : ~(KeyOf(u) \in downloaded /\ u \in active)

\* C39 (amended): a URL is in both sets only while the worker that fetched it is
\* between its Ledger insertion and its InFlight removal; once the run has
\* returned the two sets are disjoint.
C39_SharedOnlyBeforeRelease ==
    /\ \A u \in AllURLs :
          (KeyOf(u) \in downloaded /\ u \in active) =>
              \E w \in Slots :
                  /\ worker[w].pc = "finally"
                  /\ worker[w].res = "true"
                  /\ UrlOf(w) = u
    /\ tpc = "none" => \A u \in AllURLs : ~(KeyOf(u) \in downloaded /\ u \in active)

\* A worker has inserted its URL into the Ledger and not yet released it
C39_Witness ==
    \E w \in Slots :
        /\ worker[w].pc = "finally"
        /\ KeyOf(UrlOf(w)) \in downloaded
        /\ UrlOf(w) \in active

Transitions ==
    {<<"Pending", "SkippedDup">>, <<"Pending", "SkippedInFlight">>, <<"Pending", "Dispatched">>,
     <<"Dispatched", "Succeeded">>, <<"Dispatched", "Failed">>}

\* The orchestrator of the run has item k
Handed(k) == tpc \notin {"none", "begin"} /\ setup.result = "ok" /\ k \in 1..Len(videos)

\* The run is being cancelled
Cancelled == tpc # "none" /\ ~is_running

\* C32: an item of a run changes state only along the allowed transitions, and
\* every item handed to the orchestrator reaches a terminal state unless the run
\* is cancelled, after which the run ends.
C32_ItemLifecycle ==
    /\ [][\A k \in 1..MaxLiveItems :
             (Handed(k) /\ outcome'[k] # outcome[k]) => <<outcome[k], outcome'[k]>> \in Transitions]_vars
    /\ \A k \in 1..MaxLiveItems :
          Handed(k) ~> (Cancelled \/ (Handed(k) /\ outcome[k] \in TerminalOutcomes))
    /\ (tpc # "none") ~> (tpc = "none")

\* ------------------------------------------------------------------ C31
\* C31: a worker that found its metadata folder missing creates it without
\* error, whatever the other workers of the batch have done since.
C31_FolderCreationSafe ==
    [][\A w \in Slots : holds[w] = "makedirs" => worker'[w].pc # "except"]_vars

\* ------------------------------------------------------------------ C34
\* The workers other than w
Others(w) == Slots \ {w}

\* C34: a log write that fails raises nothing: the worker goes on to the step
\* that follows a successful write, the error is passed to the logging module,
\* no other worker and no outcome is touched, and a regular item that ends
\* Succeeded is in the Ledger whether or not its record was written.
C34_WriteFailureSwallowed ==
    /\ [][\A w \in Slots :
             /\ (~writable /\ WriteSuccess(w)) =>
                    /\ worker'[w].pc = "logged"
                    /\ "success.log" \in diagnostics'
             /\ (~writable /\ WriteError(w)) =>
                    /\ worker'[w].pc = "errlogged"
                    /\ "error.log" \in diagnostics'
             /\ (~writable /\ (WriteSuccess(w) \/ WriteError(w))) =>
                    /\ \A o \in Others(w) : worker'[o] = worker[o]
                    /\ UNCHANGED <<outcome, orch, downloaded, active>>]_vars
    /\ [](\A k \in 1..Len(videos) :
            (outcome[k] = "Succeeded" /\ videos[k].cat # "profile")
                => KeyOf(videos[k].url) \in downloaded)

\* Two items were processed to the end although no success record could be written
C34_Witness ==
    /\ tpc = "none"
    /\ "success.log" \in diagnostics
    /\ successLog = <<>>
    /\ Len(videos) = MaxWriteItems
    /\ \A k \in 1..Len(videos) : outcome[k] = "Succeeded"

\* ------------------------------------------------------------------ C35
\* This step is a constructor call that loads the success log
LoadsLog ==
    /\ tpc = "begin"
    /\ tpc' # "begin"
    /\ \E n \in 1..Len(setup'.calls) : setup'.calls[n] = "_load_downloaded_videos"

\* The lines of the log that hold a URL field
UrlLines(log) == {n \in 1..Len(log) : Positions(log[n], "URL:") # {}}

\* C35: loading a success log, with or without undecodable bytes, returns; every
\* line with a URL field gives a key of the completed set; the file as left by
\* the load decodes, and loading it again gives the same set and leaves the
\* file as it is.
C35_RepairLosesNothing ==
    /\ [](tpc = "begin" => load_downloaded_videos(successLog).st = "returned")
    /\ [][LoadsLog =>
             /\ \A n \in UrlLines(successLog) :
                   Strip(SplitSecond(DecodeReplace(successLog[n]), "URL:")) \in downloaded'
             /\ Decodes(successLog')
             /\ load_downloaded_videos(successLog').st = "returned"
             /\ load_downloaded_videos(successLog').keys = downloaded'
             /\ load_downloaded_videos(successLog').logs = {successLog'}]_vars

\* The second run has loaded a log that the first run repaired, with two keys
C35_Witness ==
    /\ runs = MaxRuns
    /\ tpc = "batch"
    /\ Cardinality(loadedKeys) = MaxLogLines
    /\ \E n \in 1..Len(successLog) : Positions(successLog[n], Replacement) # {}

====
